---- MODULE Spec2Model ----
(***************************************************************************)
(* A model of benchopt/viz.py: plot_benchmark, plot_convergence_curve,     *)
(* plot_histogram and _color_palette.                                      *)
(*                                                                         *)
(* A result table (pandas.DataFrame) is a sequence of rows, each a record  *)
(* [data, objective, solver, stop_val, time, obj].  A matplotlib figure is *)
(* a record of what was drawn on it.  The output folder of a benchmark is  *)
(* the set of file names saved in it.                                      *)
(*                                                                         *)
(* Numbers.  time and obj are float64 columns.  They are counted here in   *)
(* whole quanta; the only float operations whose rounding decides anything *)
(* are obj.min() - eps and obj.min() + eps, and these are rounded to the   *)
(* nearest float of MantBits significant bits (float64 has 53), ties to    *)
(* even.  Means, medians and quantiles are kept exact, as fractions or as *)
(* integers scaled by 2 or by 10.                                          *)
(***************************************************************************)
EXTENDS Integers, Sequences, FiniteSets, TLC

VARIABLES
    hashOf,  \* the process's hash(): (benchmark, dataset, objective) -> word
    files,   \* the files of the output folders: [dir, name]
    saved,   \* every savefig so far: what was plotted and under which name
    nsaves,  \* the number of savefig calls so far
    call,    \* the call under way or just ended: the function and its arguments
    pc,      \* "called", "loop" (in plot_benchmark), "returned" or "raised"
    ret,     \* what the call returned or raised
    prev,    \* the last _color_palette call that ended, and what it gave
    di, oi,  \* plot_benchmark: the position in datasets and in objectives
    kind,    \* plot_benchmark: the chart the loop body is about to consider
    figs     \* plot_benchmark: the list figs

vars == <<hashOf, files, saved, nsaves, call, pc, ret, prev, di, oi, kind, figs>>

----------------------------------------------------------------------------
(* Bounds of the model. *)

\* The largest n_colors a palette is asked for.
MaxCount == 8
\* The most negative n_colors a palette is asked for is -MinCount.
MinCount == 2
\* Significant bits of a float (53 in float64).
MantBits == 3
\* Bits of the native word (64 for a 64-bit size_t).
WordBits == 4
\* Rows of a slice handed to plot_histogram or plot_convergence_curve.
MaxRows == 3
\* Rows of a table handed to plot_benchmark.
MaxTable == 3
\* Figures saved by a process that renders slices one after the other.
MaxSaves == 5

----------------------------------------------------------------------------
(* Sequences. *)

Range(s) == {s[i] : i \in 1..Len(s)}

\* pandas.Series.unique(): the distinct values in order of first appearance.
RECURSIVE Unique(_)
Unique(s) ==
    IF s = <<>> THEN <<>>
    ELSE LET front == Unique(SubSeq(s, 1, Len(s) - 1))
             x     == s[Len(s)]
         IN IF x \in Range(front) THEN front ELSE Append(front, x)

Column(rows, c) == [i \in 1..Len(rows) |-> rows[i][c]]

\* The sequences over S of length lo..hi.
SeqsOf(S, lo, hi) == UNION {[1..n -> S] : n \in lo..hi}

Min(S) == CHOOSE x \in S : \A y \in S : x <= y
Max(S) == CHOOSE x \in S : \A y \in S : x >= y

\* A set of integers in increasing order.
RECURSIVE SortedSet(_)
SortedSet(S) ==
    IF S = {} THEN <<>> ELSE <<Min(S)>> \o SortedSet(S \ {Min(S)})

\* A sequence of integers in increasing order (duplicates kept).
RECURSIVE Sorted(_)
Sorted(s) ==
    IF s = <<>> THEN <<>>
    ELSE LET i == CHOOSE k \in 1..Len(s) : \A j \in 1..Len(s) : s[k] <= s[j]
         IN <<s[i]>> \o Sorted(SubSeq(s, 1, i - 1) \o SubSeq(s, i + 1, Len(s)))

RECURSIVE Sum(_)
Sum(s) == IF s = <<>> THEN 0 ELSE s[1] + Sum(Tail(s))

RECURSIVE Pow2(_)
Pow2(n) == IF n = 0 THEN 1 ELSE 2 * Pow2(n - 1)

----------------------------------------------------------------------------
(* Fractions: <<p, q>> with q > 0 stands for p / q. *)

Frac(p, q) == <<p, q>>
FracEq(a, b) == a[1] * b[2] = b[1] * a[2]
FracLt(a, b) == a[1] * b[2] < b[1] * a[2]
FracLe(a, b) == a[1] * b[2] <= b[1] * a[2]

----------------------------------------------------------------------------
(* _color_palette *)

\* np.linspace(0, 1, num): ValueError for num < 0, no sample for num = 0,
\* the single sample 0 for num = 1, else i / (num - 1) for i = 0..num-1.
Linspace01(num) ==
    IF num = 1 THEN <<Frac(0, 1)>>
    ELSE [i \in 1..num |-> Frac(i - 1, num - 1)]

\* a[1:-1:2]: the elements of 0-based index 1, 3, ... below len(a) - 1.
SliceInterior(a) ==
    IF Len(a) = 0 THEN <<>>
    ELSE [j \in 1..((Len(a) - 1) \div 2) |-> a[2 * j]]

\* The num that line 162 or 164 hands to np.linspace.
BinsNum(n_colors, extrema) ==
    IF extrema THEN n_colors ELSE n_colors * 2 - 1 + 2

\* Bins without the + 2 that makes room for the two trimmed end points.
BinsShort(n_colors, extrema) ==
    IF extrema THEN Linspace01(n_colors)
    ELSE SliceInterior(Linspace01(n_colors * 2 - 1))

\* bins, lines 161-164.
Bins(n_colors, extrema) ==
    IF extrema THEN Linspace01(n_colors)
    ELSE SliceInterior(Linspace01(n_colors * 2 - 1 + 2))

\* cmap(x) for the viridis colour map: an RGBA quadruple with every channel
\* in [0, 1]; here a gradient from (0, 0, 1) to (1, 1, 0), opaque.
Cmap(x) == <<x, x, Frac(x[2] - x[1], x[2]), Frac(1, 1)>>

\* cmap(bins)[:, :3] keeps the first three channels of every colour.
ColorsRGB(bins) == [i \in 1..Len(bins) |-> SubSeq(Cmap(bins[i]), 1, 3)]

\* _color_palette(n_colors, 'viridis', extrema): the outcome and, when it
\* returns, the sampled positions and the palette.
ColorPalette(n_colors, extrema) ==
    IF BinsNum(n_colors, extrema) < 0
    THEN [outcome |-> "ValueError", bins |-> <<>>, palette |-> <<>>]
    ELSE [outcome |-> "returned",
          bins    |-> Bins(n_colors, extrema),
          palette |-> ColorsRGB(Bins(n_colors, extrema))]

----------------------------------------------------------------------------
(* float64 arithmetic, at MantBits significant bits. *)

\* The spacing of the floats around the magnitude m >= 0 (1 below 2^MantBits:
\* quanta are not split).
RECURSIVE UlpFrom(_, _)
UlpFrom(m, u) == IF m < Pow2(MantBits) * u THEN u ELSE UlpFrom(m, 2 * u)
Ulp(m) == UlpFrom(m, 1)

\* m >= 0 rounded to the nearest float, ties to the even mantissa.
RoundMag(m) ==
    LET u  == Ulp(m)
        lo == (m \div u) * u
        r  == m - lo
    IN IF 2 * r < u THEN lo
       ELSE IF 2 * r > u THEN lo + u
       ELSE IF (lo \div u) % 2 = 0 THEN lo ELSE lo + u

Fl(x) == IF x < 0 THEN -RoundMag(-x) ELSE RoundMag(x)

----------------------------------------------------------------------------
(* The identifier of a plot and the name of its file. *)

\* The range of hash(): a signed native word.
SignedWords == (-Pow2(WordBits - 1))..(Pow2(WordBits - 1) - 1)

\* A conversion that negates a negative hash instead of folding it.
CSizeTAbs(h) == IF h < 0 THEN -h ELSE h

\* ctypes.c_size_t(h).value: h as an unsigned native word.
CSizeT(h) == IF h < 0 THEN h + Pow2(WordBits) ELSE h

\* hash((benchmark, dataset_name, objective_name)) then c_size_t, lines 60-61
\* and 106-107.  hashOf is the process's hash function.
PlotId(benchmark, dataset_name, objective_name) ==
    CSizeT(hashOf[<<benchmark, dataset_name, objective_name>>])

\* str(n) for n >= 0: its decimal digits, most significant first.
RECURSIVE Decimal(_)
Decimal(n) == IF n < 10 THEN <<n>> ELSE Append(Decimal(n \div 10), n % 10)

\* f"convergence_{plot_id}.pdf", line 85.
ConvergenceFile(plot_id) ==
    [prefix |-> "convergence_", id |-> Decimal(plot_id), ext |-> ".pdf"]

\* A histogram saved under the name of the convergence curve.
HistogramFileAsConvergence(plot_id) ==
    [prefix |-> "convergence_", id |-> Decimal(plot_id), ext |-> ".pdf"]

\* f"histogram_{plot_id}.pdf", line 155.
HistogramFile(plot_id) ==
    [prefix |-> "histogram_", id |-> Decimal(plot_id), ext |-> ".pdf"]

\* plt.savefig(output_dir / name): the file lands in the benchmark's output
\* folder, replacing a file of that name.
SaveFig(fs, benchmark, name) == fs \cup {[dir |-> benchmark, name |-> name]}

----------------------------------------------------------------------------
(* Grouping and statistics. *)

\* df[df.solver == m]
RowsOfSolver(rows, m) == SelectSeq(rows, LAMBDA r : r.solver = m)

\* df[df.stop_val == v]
RowsAtStop(rows, v) == SelectSeq(rows, LAMBDA r : r.stop_val = v)

\* The keys of df.groupby('stop_val'), in increasing order.
StopVals(rows) == SortedSet(Range(Column(rows, "stop_val")))

\* Twice the median of a non-empty sequence of numbers.
Median2(s) ==
    LET t == Sorted(s)
        n == Len(s)
    IN IF n % 2 = 1 THEN 2 * t[(n + 1) \div 2]
       ELSE t[n \div 2] + t[n \div 2 + 1]

\* Ten times the (p10 / 10)-quantile of a non-empty sequence, by linear
\* interpolation between the order statistics around (p10 / 10) * (n - 1).
Quantile10(s, p10) ==
    LET t  == Sorted(s)
        h  == p10 * (Len(s) - 1)
        lo == h \div 10 + 1
        fr == h % 10
    IN IF fr = 0 THEN 10 * t[lo]
       ELSE 10 * t[lo] + fr * (t[lo + 1] - t[lo])

----------------------------------------------------------------------------
(* plot_convergence_curve *)

\* eps of line 66 (1e-10), in quanta of obj: in this function one quantum of
\* obj is 1e-10.
EpsConv == 1

\* c_star = df.obj.min() - eps, line 67, a float64 subtraction.
CStarConv(rows) == Fl(Min(Range(Column(rows, "obj"))) - EpsConv)

\* One point of a solver's curve: the group of rows df_ at stop_val v
\* (lines 70-75).  time2 and y2 are twice the plotted median time and twice
\* the plotted curve.obj - c_star; q1 and q9 are ten times the quantiles.
CurvePoint(rows_m, v, c_star) ==
    LET g == RowsAtStop(rows_m, v)
    IN [stop_val |-> v,
        time2    |-> Median2(Column(g, "time")),
        y2       |-> Median2(Column(g, "obj")) - 2 * c_star,
        q1       |-> Quantile10(Column(g, "time"), 1),
        q9       |-> Quantile10(Column(g, "time"), 9)]

\* The curve of solver m, the i-th solver (from 0), lines 68-75.
Curve(rows, m, i, c_star) ==
    LET rows_m == RowsOfSolver(rows, m)
        keys   == StopVals(rows_m)
    IN [label  |-> m,
        color  |-> i,
        points |-> [k \in 1..Len(keys) |-> CurvePoint(rows_m, keys[k], c_star)]]

\* plot_convergence_curve(df, benchmark), lines 58-86: IndexError when df has
\* no row (unique()[0] of line 58), else the figure and the file it saves.
ConvergenceCurve(rows, benchmark) ==
    IF rows = <<>>
    THEN [outcome |-> "IndexError"]
    ELSE LET dataset_name   == Unique(Column(rows, "data"))[1]
             objective_name == Unique(Column(rows, "objective"))[1]
             plot_id        == PlotId(benchmark, dataset_name, objective_name)
             solvers        == Unique(Column(rows, "solver"))
             c_star         == CStarConv(rows)
         IN [outcome |-> "returned",
             chart   |-> "convergence_curve",
             data    |-> dataset_name,
             objective |-> objective_name,
             plot_id |-> plot_id,
             c_star  |-> c_star,
             curves  |-> [i \in 1..Len(solvers) |->
                             Curve(rows, solvers[i], i - 1, c_star)],
             hline   |-> EpsConv,
             printed |-> <<>>,
             file    |-> ConvergenceFile(plot_id)]

----------------------------------------------------------------------------
(* plot_histogram *)

\* eps of line 113 (1e-6), in quanta of obj: in this function one quantum of
\* obj is 5e-7.
EpsHist == 2

\* c_star = df.obj.min() + eps, line 121, a float64 addition.
CStarHist(rows) == Fl(Min(Range(Column(rows, "obj"))) + EpsHist)

\* A filter that keeps a group as soon as one of its rows is below c_star.
GroupReachesAny(rows_m, v, c_star) ==
    Min(Range(Column(RowsAtStop(rows_m, v), "obj"))) < c_star

\* The filter of lines 128-129: the group of rows_m at stop_val v is kept
\* when its largest obj is below c_star.
GroupReaches(rows_m, v, c_star) ==
    Max(Range(Column(RowsAtStop(rows_m, v), "obj"))) < c_star

\* df_tol, lines 128-129: the rows of the kept groups.
RowsTol(rows_m, c_star) ==
    SelectSeq(rows_m, LAMBDA r : GroupReaches(rows_m, r.stop_val, c_star))

\* stop_val = df_tol['stop_val'].min(), line 139.
FirstStopVal(rows_tol) == Min(Range(Column(rows_tol, "stop_val")))

\* A height taken over the rows of the solver alone.
HeightOwnRows(rows, rows_m) == Max(Range(Column(rows_m, "time")))

\* The height of the bar of a solver that did not converge, line 132: the
\* largest time of the whole slice df.
HeightNotReached(rows, rows_m) == Max(Range(Column(rows, "time")))

White == <<Frac(1, 1), Frac(1, 1), Frac(1, 1)>>

\* The bar of solver m, the i-th (from 0) of n solvers, lines 123-145.
Bar(rows, m, i, n, c_star, colors) ==
    LET rows_m   == RowsOfSolver(rows, m)
        rows_tol == RowsTol(rows_m, c_star)
        xi       == Frac(2 * i + 3, 2 * (n + 2))
    IN IF rows_tol = <<>>
       THEN [solver  |-> m, x |-> xi, width |-> Frac(1, n + 2),
             reached |-> FALSE,
             stop    |-> <<>>,
             height  |-> Frac(HeightNotReached(rows, rows_m), 1),
             color   |-> White, edgecolor |-> "k",
             annotation |-> "Did not converge",
             markers |-> <<>>]
       ELSE LET this == RowsAtStop(rows_m, FirstStopVal(rows_tol))
            IN [solver  |-> m, x |-> xi, width |-> Frac(1, n + 2),
                reached |-> TRUE,
                stop    |-> <<FirstStopVal(rows_tol)>>,
                height  |-> Frac(Sum(Column(this, "time")), Len(this)),
                color   |-> colors[i + 1], edgecolor |-> "none",
                annotation |-> "",
                markers |-> Column(this, "time")]

\* The line printed for a bar (line 131), none for a solver that converged.
Printed(bars) ==
    [k \in 1..Len(SelectSeq(bars, LAMBDA b : ~b.reached)) |->
        [text   |-> "did not reach precision",
         solver |-> SelectSeq(bars, LAMBDA b : ~b.reached)[k].solver,
         eps    |-> EpsHist]]

\* plot_histogram(df, benchmark), lines 104-156: IndexError when df has no
\* row (unique()[0] of line 104), else the figure and the file it saves.
Histogram(rows, benchmark) ==
    IF rows = <<>>
    THEN [outcome |-> "IndexError"]
    ELSE LET dataset_name   == Unique(Column(rows, "data"))[1]
             objective_name == Unique(Column(rows, "objective"))[1]
             plot_id        == PlotId(benchmark, dataset_name, objective_name)
             solvers        == Unique(Column(rows, "solver"))
             n_solvers      == Len(solvers)
             colors         == ColorPalette(n_solvers, FALSE).palette
             c_star         == CStarHist(rows)
             bars           == [i \in 1..n_solvers |->
                                   Bar(rows, solvers[i], i - 1, n_solvers,
                                       c_star, colors)]
         IN [outcome |-> "returned",
             chart   |-> "histogram",
             data    |-> dataset_name,
             objective |-> objective_name,
             plot_id |-> plot_id,
             c_star  |-> c_star,
             bars    |-> bars,
             ticks   |-> [i \in 1..n_solvers |-> <<bars[i].x, solvers[i]>>],
             printed |-> Printed(bars),
             file    |-> HistogramFile(plot_id)]

----------------------------------------------------------------------------
(* plot_benchmark *)

\* datasets = df.data.unique(), line 28.
DatasetsOf(rows) == Unique(Column(rows, "data"))

\* df_data = df[df.data == data], line 31.
RowsOfData(rows, data) == SelectSeq(rows, LAMBDA r : r.data = data)

\* objectives = df.objective.unique(), line 32: taken from the whole table
\* df, not from df_data.
ObjectivesOf(rows, rows_data) == Unique(Column(rows, "objective"))

\* df_obj = df_data[df_data.objective == objective], line 34.
RowsOfObjective(rows_data, objective) ==
    SelectSeq(rows_data, LAMBDA r : r.objective = objective)

\* A test that any configured kind passes.
WantsAny(ps) == ps # {}

\* 'convergence_curve' in plots, line 35.
WantsConvergence(ps) == "convergence_curve" \in ps

\* 'histogram' in plots, line 37.
WantsHistogram(ps) == "histogram" \in ps

\* The slice df_obj of the loop body at position (i, j).
SliceAt(rows, i, j) ==
    LET rows_data == RowsOfData(rows, DatasetsOf(rows)[i])
    IN RowsOfObjective(rows_data, ObjectivesOf(rows, rows_data)[j])

\* What a savefig of figure f adds to the record of saves.
Save(f, benchmark) ==
    [benchmark |-> benchmark, data |-> f.data, objective |-> f.objective,
     chart |-> f.chart,
     hash |-> hashOf[<<benchmark, f.data, f.objective>>],
     plot_id |-> f.plot_id, file |-> f.file]

----------------------------------------------------------------------------
(* The state machine: a process that calls the functions of the module. *)

NoResult == [outcome |-> "none"]

\* The process starts with its hash function drawn, nothing saved, and a
\* first call made.
InitWith(hashes, calls) ==
    /\ hashOf \in hashes
    /\ call \in calls
    /\ files = {}
    /\ saved = {}
    /\ nsaves = 0
    /\ pc = "called"
    /\ ret = NoResult
    /\ prev = NoResult
    /\ di = 1 /\ oi = 1
    /\ kind = "convergence_curve"
    /\ figs = <<>>

\* _color_palette(n_colors, 'viridis', extrema) runs.
ApplyPalette ==
    /\ pc = "called"
    /\ call.op = "_color_palette"
    /\ ret' = ColorPalette(call.n_colors, call.extrema)
    /\ pc' = IF ret'.outcome = "returned" THEN "returned" ELSE "raised"
    /\ UNCHANGED <<hashOf, files, saved, nsaves, call, prev, di, oi, kind, figs>>

\* A figure function applied to a slice: it raises and saves nothing, or
\* saves its figure and returns it.
ApplyPlot(r) ==
    /\ ret' = r
    /\ IF r.outcome = "returned"
       THEN /\ pc' = "returned"
            /\ files' = SaveFig(files, call.benchmark, r.file)
            /\ saved' = saved \cup {Save(r, call.benchmark)}
            /\ nsaves' = nsaves + 1
       ELSE /\ pc' = "raised"
            /\ UNCHANGED <<files, saved, nsaves>>
    /\ UNCHANGED <<hashOf, call, prev, di, oi, kind, figs>>

\* plot_convergence_curve(df, benchmark) runs.
ApplyConvergence ==
    /\ pc = "called"
    /\ call.op = "plot_convergence_curve"
    /\ ApplyPlot(ConvergenceCurve(call.df, call.benchmark))

\* plot_histogram(df, benchmark) runs.
ApplyHistogram ==
    /\ pc = "called"
    /\ call.op = "plot_histogram"
    /\ ApplyPlot(Histogram(call.df, call.benchmark))

\* plot_benchmark(df, benchmark), lines 26-29, with plots the 'plots'
\* setting of the benchmark.
EnterBenchmark ==
    /\ pc = "called"
    /\ call.op = "plot_benchmark"
    /\ pc' = "loop"
    /\ figs' = <<>>
    /\ di' = 1 /\ oi' = 1
    /\ kind' = "convergence_curve"
    /\ UNCHANGED <<hashOf, files, saved, nsaves, call, ret, prev>>

\* One chart of the loop body: the figure function raises, and so does
\* plot_benchmark, its list figs lost; or the figure is appended.
LoopPlot(r) ==
    IF r.outcome = "returned"
    THEN /\ figs' = Append(figs, r)
         /\ files' = SaveFig(files, call.benchmark, r.file)
         /\ saved' = saved \cup {Save(r, call.benchmark)}
         /\ nsaves' = nsaves + 1
         /\ UNCHANGED <<pc, ret>>
    ELSE /\ pc' = "raised"
         /\ ret' = [outcome |-> r.outcome]
         /\ UNCHANGED <<figs, files, saved, nsaves>>

\* Lines 34-36 for the slice at (di, oi).
StepConvergence ==
    /\ pc = "loop"
    /\ di <= Len(DatasetsOf(call.df))
    /\ kind = "convergence_curve"
    /\ IF WantsConvergence(call.plots)
       THEN LoopPlot(ConvergenceCurve(SliceAt(call.df, di, oi), call.benchmark))
       ELSE UNCHANGED <<pc, ret, figs, files, saved, nsaves>>
    /\ kind' = "histogram"
    /\ UNCHANGED <<hashOf, call, prev, di, oi>>

\* Lines 37-38 for the slice at (di, oi), then on to the next objective, or
\* to the next dataset.
StepHistogram ==
    /\ pc = "loop"
    /\ di <= Len(DatasetsOf(call.df))
    /\ kind = "histogram"
    /\ IF WantsHistogram(call.plots)
       THEN LoopPlot(Histogram(SliceAt(call.df, di, oi), call.benchmark))
       ELSE UNCHANGED <<pc, ret, figs, files, saved, nsaves>>
    /\ kind' = "convergence_curve"
    /\ IF oi < Len(ObjectivesOf(call.df, RowsOfData(call.df, DatasetsOf(call.df)[di])))
       THEN oi' = oi + 1 /\ di' = di
       ELSE oi' = 1 /\ di' = di + 1
    /\ UNCHANGED <<hashOf, call, prev>>

\* Lines 39-40: the loops are over, figs is returned.
ReturnFigs ==
    /\ pc = "loop"
    /\ di > Len(DatasetsOf(call.df))
    /\ pc' = "returned"
    /\ ret' = [outcome |-> "returned", figs |-> figs]
    /\ UNCHANGED <<hashOf, files, saved, nsaves, call, prev, di, oi, kind, figs>>

\* The call has ended; the process makes its next call, one of calls (no
\* more once MaxSaves figures have been saved).
NextCall(calls) ==
    /\ pc \in {"returned", "raised"}
    /\ nsaves < MaxSaves
    /\ call' \in calls
    /\ pc' = "called"
    /\ prev' = IF call.op = "_color_palette"
               THEN [outcome |-> ret.outcome, call |-> call, ret |-> ret]
               ELSE prev
    /\ ret' = NoResult
    /\ UNCHANGED <<hashOf, files, saved, nsaves, di, oi, kind, figs>>

----------------------------------------------------------------------------
(* The calls a process may make. *)

Row(d, o, m, v, t, x) ==
    [data |-> d, objective |-> o, solver |-> m, stop_val |-> v,
     time |-> t, obj |-> x]

Benchmark == "b1"

TriplesOf(ds, os) == {<<Benchmark, d, o>> : d \in ds, o \in os}

\* One hash function without collision, and one that sends every triple to
\* the same negative word.
SampleHashes(ds, os) ==
    {[t \in TriplesOf(ds, os) |->
        (IF t[2] = "d1" THEN 0 ELSE 1) + (IF t[3] = "o1" THEN 0 ELSE 2) - 2],
     [t \in TriplesOf(ds, os) |-> -1]}

\* One hash function, where file names play no part.
OneHash == {[t \in TriplesOf({"d1"}, {"o1"}) |-> -2]}

\* _color_palette with n_colors in -MinCount..MaxCount, in both modes.
PaletteCalls ==
    {[op |-> "_color_palette", n_colors |-> n, extrema |-> e] :
        n \in (-MinCount)..MaxCount, e \in BOOLEAN}

\* The slices of one dataset and one objective: two solvers, two stop_val,
\* up to MaxRows rows.
SliceRows(times, objs) ==
    {Row("d1", "o1", m, v, t, x) :
        m \in {"A", "B"}, v \in {1, 2}, t \in times, x \in objs}

HistogramCalls ==
    {[op |-> "plot_histogram", df |-> rows, benchmark |-> Benchmark] :
        rows \in SeqsOf(SliceRows({1, 2}, {0, 1, 2}), 1, MaxRows)}

\* obj 20 is a float at which the spacing of the floats exceeds 2 * eps.
ConvergenceCalls ==
    {[op |-> "plot_convergence_curve", df |-> rows, benchmark |-> Benchmark] :
        rows \in SeqsOf(SliceRows({1, 2}, {0, 1, 20}), 1, MaxRows)}

\* Renders of two one-row slices, as convergence curve and as histogram.
RenderCalls ==
    {[op |-> f, df |-> <<Row(d, "o1", "A", 1, 1, 0)>>, benchmark |-> Benchmark] :
        f \in {"plot_convergence_curve", "plot_histogram"}, d \in {"d1", "d2"}}

Kinds == {"convergence_curve", "histogram", "other"}

\* Tables of up to MaxTable rows over two datasets and two objectives, the
\* empty table too, under every 'plots' setting over Kinds.
BenchmarkCalls ==
    {[op |-> "plot_benchmark", df |-> rows, benchmark |-> Benchmark, plots |-> ps] :
        rows \in SeqsOf({Row(d, o, "A", 1, 1, 0) :
                            d \in {"d1", "d2"}, o \in {"o1", "o2"}}, 0, MaxTable),
        ps \in SUBSET Kinds}

----------------------------------------------------------------------------
(* The specifications. *)

\* plot_benchmark on a table.
Init == InitWith(SampleHashes({"d1", "d2"}, {"o1", "o2"}), BenchmarkCalls)
Next ==
    \/ EnterBenchmark
    \/ StepConvergence
    \/ StepHistogram
    \/ ReturnFigs
Spec == Init /\ [][Next]_vars

\* _color_palette, called time and again.
InitPalette == InitWith(OneHash, PaletteCalls)
NextPalette ==
    \/ ApplyPalette
    \/ NextCall(PaletteCalls)
SpecPalette == InitPalette /\ [][NextPalette]_vars

\* plot_histogram on a slice.
InitHistogram == InitWith(OneHash, HistogramCalls)
NextHistogram == ApplyHistogram
SpecHistogram == InitHistogram /\ [][NextHistogram]_vars

\* plot_convergence_curve on a slice.
InitConvergence == InitWith(OneHash, ConvergenceCalls)
NextConvergence == ApplyConvergence
SpecConvergence == InitConvergence /\ [][NextConvergence]_vars

\* Renders one after the other in one process, under every hash function.
InitRender ==
    InitWith([TriplesOf({"d1", "d2"}, {"o1"}) -> SignedWords], RenderCalls)
NextRender ==
    \/ ApplyConvergence
    \/ ApplyHistogram
    \/ NextCall(RenderCalls)
SpecRender == InitRender /\ [][NextRender]_vars

----------------------------------------------------------------------------
(* The claims about _color_palette, under SpecPalette. *)

PaletteEnded == call.op = "_color_palette" /\ pc \in {"returned", "raised"}

Zero == Frac(0, 1)
One  == Frac(1, 1)

\* A colour is a triple of channels, each in [0, 1].
IsColor(c) ==
    /\ Len(c) = 3
    /\ \A j \in 1..3 : FracLe(Zero, c[j]) /\ FracLe(c[j], One)

\* What is claimed of every palette, whatever the mode: count colours, taken
\* at pairwise distinct positions, and the same as the call before gave if
\* that call had the same arguments.
PaletteShape ==
    /\ pc = "returned"
    /\ Len(ret.palette) = call.n_colors
    /\ Len(ret.bins) = call.n_colors
    /\ \A k \in 1..Len(ret.palette) : IsColor(ret.palette[k])
    /\ \A j, k \in 1..Len(ret.bins) :
          j # k => ~FracEq(ret.bins[j], ret.bins[k])
    /\ (prev.outcome # "none" /\ prev.call = call) => prev.ret = ret

\* In interior mode the positions are (2k+1) / (2 count), k = 0..count-1,
\* all strictly between 0 and 1.
InteriorPositions ==
    \A k \in 0..(call.n_colors - 1) :
        /\ FracEq(ret.bins[k + 1], Frac(2 * k + 1, 2 * call.n_colors))
        /\ FracLt(Zero, ret.bins[k + 1])
        /\ FracLt(ret.bins[k + 1], One)

\* In inclusive-extrema mode the positions start at 0, end at 1 and are
\* evenly spaced.
ExtremaPositionsBothEnds ==
    /\ FracEq(ret.bins[1], Zero)
    /\ FracEq(ret.bins[call.n_colors], One)
    /\ \A k \in 0..(call.n_colors - 1) :
          FracEq(ret.bins[k + 1], Frac(k, Max({call.n_colors - 1, 1})))

\* C9, as claimed: for all count >= 1 and both modes the palette has count
\* colours, each a triple in [0,1]^3; interior positions are (2k+1)/(2 count);
\* extrema positions run evenly from 0 to 1 and include both end points; two
\* calls with the same arguments give the same palette.
C9_AsClaimed ==
    (PaletteEnded /\ call.n_colors >= 1) =>
        /\ PaletteShape
        /\ (~call.extrema => InteriorPositions)
        /\ (call.extrema => ExtremaPositionsBothEnds)

\* C9, amended: as claimed, except that in inclusive-extrema mode both end
\* points are included only for count >= 2; for count = 1 the only position
\* is 0.
C9_Palette ==
    (PaletteEnded /\ call.n_colors >= 1) =>
        /\ PaletteShape
        /\ (~call.extrema => InteriorPositions)
        /\ (call.extrema /\ call.n_colors >= 2 => ExtremaPositionsBothEnds)
        /\ (call.extrema /\ call.n_colors = 1 => FracEq(ret.bins[1], Zero))

\* An inclusive-extrema palette of one colour, asked for twice in a row: the
\* second call has returned.
C9_Witness ==
    /\ PaletteEnded /\ pc = "returned"
    /\ call.n_colors = 1 /\ call.extrema
    /\ prev.outcome = "returned" /\ prev.call = call

\* C10, as claimed: a call with count < 1 ends in an error and returns no
\* palette, not even an empty one.
C10_RejectsCountBelowOne ==
    (PaletteEnded /\ call.n_colors < 1) => pc = "raised"

----------------------------------------------------------------------------
(* The claims about plot_histogram, under SpecHistogram. *)

HistogramReturned == call.op = "plot_histogram" /\ pc = "returned"

\* The rows (by position in the slice) of solver m at stop_val v.
At(rows, m, v) ==
    {i \in 1..Len(rows) : rows[i].solver = m /\ rows[i].stop_val = v}

\* c_star = min(obj over the slice) + eps, as float64 adds.
Threshold(rows) == Fl(Min({rows[i].obj : i \in 1..Len(rows)}) + EpsHist)

\* The stop_val of solver m at which every row's obj is below the threshold.
Converged(rows, m) ==
    {v \in {rows[i].stop_val : i \in 1..Len(rows)} :
        /\ At(rows, m, v) # {}
        /\ \A i \in At(rows, m, v) : rows[i].obj < Threshold(rows)}

\* The time of the rows at the positions I, in the order of the slice.
TimesAt(rows, I) ==
    LET idx == SortedSet(I) IN [k \in 1..Len(idx) |-> rows[idx[k]].time]

\* One bar per solver of the slice, in order of first appearance.
OneBarPerSolver ==
    /\ Len(ret.bars) = Cardinality({call.df[i].solver : i \in 1..Len(call.df)})
    /\ \A j, k \in 1..Len(ret.bars) :
          j # k => ret.bars[j].solver # ret.bars[k].solver
    /\ \A i \in 1..Len(call.df) :
          \E k \in 1..Len(ret.bars) : ret.bars[k].solver = call.df[i].solver

\* C1: a solver with a stop_val at which all of its rows are below c_star is
\* Reached at the smallest such stop_val, never at a smaller one where only
\* some row is below; its bar is as high as the mean time of all its rows at
\* that stop_val, and those rows' times are the markers.
C1_ReachedAtFirstFullGroup ==
    HistogramReturned =>
        /\ OneBarPerSolver
        /\ \A k \in 1..Len(ret.bars) :
              LET b  == ret.bars[k]
                  cv == Converged(call.df, b.solver)
                  I  == At(call.df, b.solver, Min(cv))
                  ts == TimesAt(call.df, I)
              IN cv # {} =>
                    /\ b.reached
                    /\ b.stop = <<Min(cv)>>
                    /\ FracEq(b.height, Frac(Sum(ts), Cardinality(I)))
                    /\ b.markers = ts

\* A solver has a row below c_star at stop_val 1 next to one that is not, and
\* is reported at stop_val 2.
C1_Witness ==
    /\ HistogramReturned
    /\ \E k \in 1..Len(ret.bars) :
          LET b == ret.bars[k]
              I == At(call.df, b.solver, 1)
          IN /\ b.reached /\ b.stop = <<2>>
             /\ \E i \in I : call.df[i].obj < Threshold(call.df)
             /\ \E i \in I : call.df[i].obj >= Threshold(call.df)

\* C2: a solver is NotReached exactly when none of its stop_val has all rows
\* below c_star; then the call still returns, a "did not reach precision eps"
\* line is printed for it, its bar reads "Did not converge" and is as high as
\* the largest time of the whole slice.
C2_NotReached ==
    (call.op = "plot_histogram" /\ pc # "called") =>
        /\ pc = "returned"
        /\ OneBarPerSolver
        /\ \A k \in 1..Len(ret.bars) :
              LET b == ret.bars[k]
              IN /\ ~b.reached <=> Converged(call.df, b.solver) = {}
                 /\ ~b.reached =>
                       /\ b.annotation = "Did not converge"
                       /\ FracEq(b.height,
                                 Frac(Max({call.df[i].time : i \in 1..Len(call.df)}), 1))
                       /\ \E j \in 1..Len(ret.printed) :
                             /\ ret.printed[j].solver = b.solver
                             /\ ret.printed[j].text = "did not reach precision"
                             /\ ret.printed[j].eps = EpsHist
                 /\ b.reached =>
                       \A j \in 1..Len(ret.printed) :
                           ret.printed[j].solver # b.solver

\* A solver that did not converge, all of whose rows took less time than
\* some row of another solver, which converged.
C2_Witness ==
    /\ HistogramReturned
    /\ \E k, l \in 1..Len(ret.bars) :
          /\ ~ret.bars[k].reached
          /\ ret.bars[l].reached
          /\ \A i \in 1..Len(call.df) :
                call.df[i].solver = ret.bars[k].solver =>
                    FracLt(Frac(call.df[i].time, 1), ret.bars[k].height)

----------------------------------------------------------------------------
(* The claim about plot_convergence_curve, under SpecConvergence. *)

\* The stop_val of the rows of solver m.
StopValsOf(rows, m) ==
    {rows[i].stop_val : i \in {j \in 1..Len(rows) : rows[j].solver = m}}

\* C8: every solver's curve has exactly one point per distinct stop_val of
\* its rows, at the median obj of that group minus c_star, and that value is
\* strictly positive at every point, so that the logarithmic axis gets no
\* value <= 0.
C8_CurveStrictlyPositive ==
    (call.op = "plot_convergence_curve" /\ pc # "called") =>
        /\ pc = "returned"
        /\ \A k \in 1..Len(ret.curves) :
              LET c == ret.curves[k]
              IN /\ Len(c.points) = Cardinality(StopValsOf(call.df, c.label))
                 /\ {c.points[j].stop_val : j \in 1..Len(c.points)}
                       = StopValsOf(call.df, c.label)
                 /\ \A j \in 1..Len(c.points) : c.points[j].y2 > 0

----------------------------------------------------------------------------
(* The claims about plot identifiers and file names, under SpecRender. *)

\* The value of a sequence of decimal digits.
RECURSIVE DigitsValue(_)
DigitsValue(ds) ==
    IF ds = <<>> THEN 0
    ELSE 10 * DigitsValue(SubSeq(ds, 1, Len(ds) - 1)) + ds[Len(ds)]

\* C6: the identifier of a plot is its hash h modulo 2^w: it lies in
\* 0..2^w - 1, a negative h is folded to h + 2^w, different hashes give
\* different identifiers, and one triple has one identifier throughout the
\* process.
C6_IdentifierIsHashModWord ==
    /\ \A e \in saved :
          /\ e.hash \in SignedWords
          /\ e.plot_id \in 0..(Pow2(WordBits) - 1)
          /\ e.plot_id = e.hash % Pow2(WordBits)
          /\ e.hash < 0 => e.plot_id = e.hash + Pow2(WordBits)
    /\ \A e1, e2 \in saved :
          /\ e1.plot_id = e2.plot_id => e1.hash = e2.hash
          /\ (e1.data = e2.data /\ e1.objective = e2.objective
                 /\ e1.benchmark = e2.benchmark) => e1.plot_id = e2.plot_id

\* Both slices rendered as both charts, one under a negative hash and one
\* under a hash >= 0.
C6_Witness ==
    /\ Cardinality({<<e.data, e.chart>> : e \in saved}) = 4
    /\ \E e1, e2 \in saved : e1.hash < 0 /\ e2.hash >= 0

\* What has been plotted so far: (benchmark, dataset, objective, kind).
Plotted == {<<e.benchmark, e.data, e.objective, e.chart>> : e \in saved}

\* C7: the output folder holds at most one file per (benchmark, dataset,
\* objective, kind): every save went to convergence_<id>.pdf or
\* histogram_<id>.pdf with <id> the decimal identifier of the slice, so a
\* second render of the same thing wrote over the first, both charts of a
\* slice carry one <id>, and no convergence file is a histogram file.
C7_OneFilePerPlot ==
    /\ files = {[dir |-> e.benchmark, name |-> e.file] : e \in saved}
    /\ Cardinality(files) <= Cardinality(Plotted)
    /\ Cardinality(Plotted) <= nsaves
    /\ \A e \in saved :
          /\ e.file.prefix = (IF e.chart = "convergence_curve"
                              THEN "convergence_" ELSE "histogram_")
          /\ e.file.ext = ".pdf"
          /\ DigitsValue(e.file.id) = e.plot_id
          /\ \A j \in 1..Len(e.file.id) : e.file.id[j] \in 0..9
          /\ Len(e.file.id) >= 1
          /\ Len(e.file.id) > 1 => e.file.id[1] # 0
    /\ \A e1, e2 \in saved :
          /\ (e1.benchmark = e2.benchmark /\ e1.data = e2.data
                 /\ e1.objective = e2.objective) => e1.file.id = e2.file.id
          /\ (e1.benchmark = e2.benchmark /\ e1.data = e2.data
                 /\ e1.objective = e2.objective /\ e1.chart = e2.chart)
                => e1.file = e2.file
          /\ e1.chart # e2.chart => e1.file # e2.file

\* Five renders of at most four different plots: one was rendered twice, and
\* the folder holds four files, two of them for one slice.
C7_Witness ==
    /\ nsaves = 5
    /\ Cardinality(Plotted) = 4
    /\ Cardinality(files) = 4
    /\ \E f, g \in files : f.name.id = g.name.id /\ f.name.prefix # g.name.prefix

----------------------------------------------------------------------------
(* The claims about plot_benchmark, under Spec. *)

BenchmarkEnded == call.op = "plot_benchmark" /\ pc \in {"returned", "raised"}

Known == {"convergence_curve", "histogram"}

\* The kinds of ps that plot_benchmark knows, in the order of the loop body.
KnownKinds(ps) ==
    SelectSeq(<<"convergence_curve", "histogram">>, LAMBDA c : c \in ps)

\* <<dataset, objective, kind>> of each figure of a list.
ChartKeys(fs) == [k \in 1..Len(fs) |-> <<fs[k].data, fs[k].objective, fs[k].chart>>]

\* The values of column c in the rows of dataset d, in order of first
\* appearance.
ValuesWithin(rows, d, c) ==
    Unique(Column(SelectSeq(rows, LAMBDA r : r.data = d), c))

\* The values of column c in the whole table, in order of first appearance.
ValuesOf(rows, c) == Unique(Column(rows, c))

RECURSIVE Flatten(_)
Flatten(ss) == IF ss = <<>> THEN <<>> ELSE ss[1] \o Flatten(Tail(ss))

\* One chart per dataset (in first-seen order), objective occurring in that
\* dataset and requested kind.
ChartsOfPresentPairs(rows, ps) ==
    LET ds == ValuesOf(rows, "data")
    IN Flatten([i \in 1..Len(ds) |->
          LET os == ValuesWithin(rows, ds[i], "objective")
          IN Flatten([j \in 1..Len(os) |->
                [k \in 1..Len(KnownKinds(ps)) |->
                    <<ds[i], os[j], KnownKinds(ps)[k]>>]])])

\* The pair (d, o) has a row in the table.
Present(rows, d, o) ==
    \E i \in 1..Len(rows) : rows[i].data = d /\ rows[i].objective = o

\* C3: plot_benchmark visits the datasets in first-seen order and, in each,
\* the objectives that occur in that dataset's rows; it builds no slice for a
\* (dataset, objective) without rows and returns one chart per (dataset,
\* objective within the dataset, requested kind).
C3_OneChartPerPresentPair ==
    call.op = "plot_benchmark" =>
        /\ (pc = "loop" /\ di <= Len(DatasetsOf(call.df))) =>
               SliceAt(call.df, di, oi) # <<>>
        /\ BenchmarkEnded =>
               /\ pc = "returned"
               /\ ChartKeys(ret.figs) = ChartsOfPresentPairs(call.df, call.plots)

\* One chart per dataset, objective of the table and requested kind, for the
\* pairs that have rows.
ChartsOfNonEmptySlices(rows, ps) ==
    LET ds == ValuesOf(rows, "data")
        os == ValuesOf(rows, "objective")
    IN Flatten([i \in 1..Len(ds) |->
          Flatten([j \in 1..Len(os) |->
             IF Present(rows, ds[i], os[j])
             THEN [k \in 1..Len(KnownKinds(ps)) |->
                      <<ds[i], os[j], KnownKinds(ps)[k]>>]
             ELSE <<>>])])

\* C4: a slice without rows aborts the render of its own chart only:
\* plot_benchmark goes on and returns the charts made before and after.
C4_EmptySliceAbortsOneChart ==
    BenchmarkEnded =>
        /\ pc # "raised"
        /\ ChartKeys(ret.figs) = ChartsOfNonEmptySlices(call.df, call.plots)

\* plot_benchmark from position (i, j) on, with only the kinds ps asked for
\* and fs the figures made so far.
RECURSIVE RunFrom(_, _, _, _, _)
RunFrom(rows, ps, i, j, fs) ==
    IF i > Len(DatasetsOf(rows))
    THEN [outcome |-> "returned", figs |-> fs]
    ELSE LET slice == SliceAt(rows, i, j)
             last  == j >= Len(ObjectivesOf(rows, RowsOfData(rows, DatasetsOf(rows)[i])))
             c     == ConvergenceCurve(slice, call.benchmark)
             h     == Histogram(slice, call.benchmark)
             fs1   == IF "convergence_curve" \in ps THEN Append(fs, c) ELSE fs
             fs2   == IF "histogram" \in ps THEN Append(fs1, h) ELSE fs1
         IN IF slice = <<>> /\ ps # {}
            THEN [outcome |-> "IndexError"]
            ELSE RunFrom(rows, ps, IF last THEN i + 1 ELSE i,
                         IF last THEN 1 ELSE j + 1, fs2)

\* C5: with no kind, or only kinds other than 'convergence_curve' and
\* 'histogram', plot_benchmark returns no chart for any table, raises nothing
\* and saves nothing; in a mixed set the other kinds add no chart and leave
\* the outcome what the known kinds alone would give.
C5_UnknownKindsIgnored ==
    call.op = "plot_benchmark" =>
        /\ call.plots \cap Known = {} =>
              /\ pc # "raised"
              /\ figs = <<>> /\ files = {} /\ nsaves = 0
              /\ pc = "returned" => ret.figs = <<>>
        /\ \A k \in 1..Len(figs) : figs[k].chart \in call.plots \cap Known
        /\ BenchmarkEnded =>
              LET r == RunFrom(call.df, call.plots \cap Known, 1, 1, <<>>)
              IN /\ ret.outcome = r.outcome
                 /\ pc = "returned" => ret.figs = r.figs

\* plot_benchmark has returned from a table that lacks a (dataset, objective)
\* combination, with only an unknown kind configured.
C5_Witness ==
    /\ call.op = "plot_benchmark" /\ pc = "returned"
    /\ call.plots = {"other"}
    /\ \E i, j \in 1..Len(call.df) :
          ~Present(call.df, call.df[i].data, call.df[j].objective)

====
